---- MODULE Spec2Model ----
(***************************************************************************)
(* Model of the Solstice Protocol on-chain program                         *)
(* (contracts/programs/contracts/src): the Groth16 verification entry      *)
(* point, the Poseidon hashing and Merkle helpers of compression.rs, the   *)
(* CompressedIdentity record and the identity instructions of lib.rs.      *)
(*                                                                         *)
(* Byte buffers are sequences of naturals below 256.  A field element Fr   *)
(* is represented by its canonical 32-byte little-endian encoding.  The    *)
(* external crates (groth16-solana, light-poseidon) are outside the        *)
(* repository: the Groth16 verifier is an oracle whose verdict is an       *)
(* input, the Poseidon permutation is a deterministic mixing function.     *)
(***************************************************************************)
EXTENDS Integers, Sequences, FiniteSets, TLC

VARIABLES
    registry,    \* IdentityRegistry account (state.rs)
    identity,    \* Identity account of the user USER (state.rs)
    compressed,  \* CompressedIdentity record (compression.rs)
    lastOp,      \* name of the last operation applied, "none"/"pending" before
    args,        \* the inputs of that operation
    result       \* what it returned

vars == <<registry, identity, compressed, lastOp, args, result>>

----------------------------------------------------------------------------
(* Bounds of the exploration *)

\* attribute tags 0..MaxTag are tried (the argument is a u8)
MaxTag == 5
\* public-input buffers of up to MaxPubWords 32-byte words (plus misaligned ones)
MaxPubWords == 6
\* clock readings 1..MaxTime
MaxTime == 2

(* Program constants *)

PROOF_LEN == 256
INPUT_LEN == 32
MAX_ARITY == 5
CHUNK_LEN == 31
FR_LEN == 32
AGE == 1
NATIONALITY == 2
UNIQUENESS == 4

----------------------------------------------------------------------------
(* Results: Result<T> of anchor_lang *)

Ok(v) == [ok |-> TRUE, val |-> v, err |-> "none"]

Err(e) == [ok |-> FALSE, val |-> FALSE, err |-> e]

NoResult == [ok |-> FALSE, val |-> FALSE, err |-> "pending"]

----------------------------------------------------------------------------
(* groth16_verifier.rs *)

\* What groth16-solana does with a well-shaped call: Groth16Verifier::new
\* refuses it ("malformed"), verify() finds the check failing ("rejected"),
\* or verify() succeeds ("accepted": the pairing equation holds).
LibVerdicts == {"malformed", "rejected", "accepted"}

\* The trace of a verifier call: the key selected and the library calls made.
Trace(r, vk, calls) == [ok |-> r.ok, val |-> r.val, err |-> r.err, vk |-> vk, calls |-> calls]

SelectKey_Defaulting(attribute_type) ==
    IF attribute_type = NATIONALITY THEN "NATIONALITY_PROOF_VK"
    ELSE IF attribute_type = UNIQUENESS THEN "UNIQUENESS_PROOF_VK"
    ELSE "AGE_PROOF_VK"

\* match attribute_type { 1 => .., 2 => .., 4 => .., _ => return Err }
SelectKey(attribute_type) ==
    IF attribute_type = AGE THEN "AGE_PROOF_VK"
    ELSE IF attribute_type = NATIONALITY THEN "NATIONALITY_PROOF_VK"
    ELSE IF attribute_type = UNIQUENESS THEN "UNIQUENESS_PROOF_VK"
    ELSE "none"

CheckInputLengths_Loose(proofLen, pubLen) ==
    IF proofLen < PROOF_LEN THEN "InvalidProof"
    ELSE IF pubLen = 0 THEN "InvalidPublicInputs"
    ELSE IF pubLen % INPUT_LEN # 0 THEN "InvalidPublicInputs"
    ELSE "none"

\* the three require! lines on the buffer lengths, in order
CheckInputLengths(proofLen, pubLen) ==
    IF proofLen # PROOF_LEN THEN "InvalidProof"
    ELSE IF pubLen = 0 THEN "InvalidPublicInputs"
    ELSE IF pubLen % INPUT_LEN # 0 THEN "InvalidPublicInputs"
    ELSE "none"

verify_with_inputs_WrongCode(n, pubLen, verdict) ==
    IF verdict = "malformed"
    THEN Trace(Err("InvalidProof"), "key", {"verify_with_inputs", "new"})
    ELSE IF verdict = "rejected"
    THEN Trace(Err("InvalidProof"), "key", {"verify_with_inputs", "new", "verify"})
    ELSE Trace(Ok(TRUE), "key", {"verify_with_inputs", "new", "verify"})

\* verify_with_inputs::<N>: copies N words of 32 bytes, builds the verifier,
\* runs verify(); each library failure is mapped to an error code.
verify_with_inputs(n, pubLen, verdict) ==
    IF verdict = "malformed"
    THEN Trace(Err("InvalidProof"), "key", {"verify_with_inputs", "new"})
    ELSE IF verdict = "rejected"
    THEN Trace(Err("ProofVerificationFailed"), "key", {"verify_with_inputs", "new", "verify"})
    ELSE Trace(Ok(TRUE), "key", {"verify_with_inputs", "new", "verify"})

DispatchArity_UpToTen(num_inputs, pubLen, verdict) ==
    IF num_inputs \in 1..10
    THEN verify_with_inputs(num_inputs, pubLen, verdict)
    ELSE Trace(Err("InvalidPublicInputs"), "key", {})

\* match num_inputs { 1..=5 => verify_with_inputs::<N>(..)?, _ => return Err }
DispatchArity(num_inputs, pubLen, verdict) ==
    IF num_inputs \in 1..MAX_ARITY
    THEN verify_with_inputs(num_inputs, pubLen, verdict)
    ELSE Trace(Err("InvalidPublicInputs"), "key", {})

verify_groth16_proof(proofLen, pubLen, attribute_type, verdict) ==
    LET vk == SelectKey(attribute_type)
        lens == CheckInputLengths(proofLen, pubLen)
        num_inputs == pubLen \div INPUT_LEN
        r == DispatchArity(num_inputs, pubLen, verdict)
    IN  IF vk = "none" THEN Trace(Err("InvalidPublicInputs"), "none", {})
        ELSE IF lens # "none" THEN Trace(Err(lens), vk, {})
        ELSE IF ~r.ok THEN Trace(r, vk, r.calls)
        ELSE IF r.val THEN Trace(Ok(TRUE), vk, r.calls)
        ELSE Trace(Err("ProofVerificationFailed"), vk, r.calls)

----------------------------------------------------------------------------
(* compression.rs: byte buffers and field elements *)

Min(a, b) == IF a <= b THEN a ELSE b

\* [0u8; 32]
Zero32 == <<0, 0, 0, 0, 0, 0, 0, 0, 0, 0, 0, 0, 0, 0, 0, 0,
            0, 0, 0, 0, 0, 0, 0, 0, 0, 0, 0, 0, 0, 0, 0, 0>>

\* [b; n]
Fill(b, n) == SubSeq([i \in 1..n |-> b], 1, n)

\* a buffer whose bytes are pairwise different (up to 255 of them)
Ramp(base, n) == SubSeq([i \in 1..n |-> (base + i) % 256], 1, n)

\* bytes_to_fr: the first min(len, 31) bytes, zero-padded to 32; the value is
\* below 2^248, so from_le_bytes_mod_order reduces nothing.
bytes_to_fr(bytes) ==
    LET len == Min(Len(bytes), CHUNK_LEN)
    IN  SubSeq(bytes, 1, len) \o SubSeq(Zero32, 1, FR_LEN - len)

\* fr_to_bytes: the little-endian bytes of the element, copied into [0u8; 32]
fr_to_bytes(element) ==
    LET copy_len == Min(Len(element), FR_LEN)
    IN  SubSeq(element, 1, copy_len) \o SubSeq(Zero32, 1, FR_LEN - copy_len)

\* Fr::zero()
FrZero == Zero32

RECURSIVE Chunks(_)
\* input.chunks(31): consecutive pieces of 31 bytes, the last one shorter;
\* an empty slice has no chunk.
Chunks(input) ==
    IF Len(input) = 0 THEN <<>>
    ELSE IF Len(input) <= CHUNK_LEN THEN <<input>>
    ELSE <<SubSeq(input, 1, CHUNK_LEN)>> \o Chunks(SubSeq(input, CHUNK_LEN + 1, Len(input)))

RECURSIVE Concat(_)
Concat(bufs) == IF bufs = <<>> THEN <<>> ELSE Head(bufs) \o Concat(Tail(bufs))

RECURSIVE FrOfChunks(_)
FrOfChunks(chunks) ==
    IF chunks = <<>> THEN <<>>
    ELSE <<bytes_to_fr(Head(chunks))>> \o FrOfChunks(Tail(chunks))

FieldInputs_ConcatFirst(inputs) == FrOfChunks(Chunks(Concat(inputs)))

RECURSIVE FieldInputs(_)
\* for input in inputs { for chunk in input.chunks(31) { push(bytes_to_fr(chunk)) } }
FieldInputs(inputs) ==
    IF inputs = <<>> THEN <<>>
    ELSE FrOfChunks(Chunks(Head(inputs))) \o FieldInputs(Tail(inputs))

----------------------------------------------------------------------------
(* light-poseidon, as poseidon_hash uses it *)

\* Poseidon::new_circom(n) has parameters for 1..12 inputs only
POSEIDON_MAX_INPUTS == 12

RECURSIVE MixBytes(_, _)
\* the first i bytes of one element, mixed
MixBytes(bytes, i) ==
    IF i = 0 THEN 1
    ELSE (MixBytes(bytes, i - 1) * 263 + bytes[i] + 1) % 1000003

RECURSIVE MixElems(_, _)
\* the first k elements, mixed in order, starting from the arity
MixElems(elems, k) ==
    IF k = 0 THEN Len(elems)
    ELSE (MixElems(elems, k - 1) * 263 + MixBytes(elems[k], Len(elems[k]))) % 1000003

\* The permutation: a deterministic function of the arity and of the ordered
\* elements whose value is a field element (top byte below 0x30).
PoseidonHash(elems) ==
    LET n == MixElems(elems, Len(elems))
    IN  <<n % 256, (n \div 256) % 256, n \div 65536>>
        \o SubSeq(Zero32, 1, FR_LEN - 4) \o <<n % 48>>

\* poseidon_hash: field elements, the zero digest for none, else the hasher;
\* both library failures become CompressionError.
poseidon_hash(inputs) ==
    LET field_inputs == FieldInputs(inputs)
    IN  IF Len(field_inputs) = 0 THEN Ok(fr_to_bytes(FrZero))
        ELSE IF Len(field_inputs) > POSEIDON_MAX_INPUTS THEN Err("CompressionError")
        ELSE Ok(fr_to_bytes(PoseidonHash(field_inputs)))

\* a call of poseidon_hash with its local field_inputs kept for inspection
HashRun(inputs) ==
    LET r == poseidon_hash(inputs)
    IN  [ok |-> r.ok, val |-> r.val, err |-> r.err, field_inputs |-> FieldInputs(inputs)]

\* compress_identity_data: Poseidon(owner, commitment, merkle_root)
compress_identity_data(owner, identity_commitment, merkle_root) ==
    poseidon_hash(<<owner, identity_commitment, merkle_root>>)

\* generate_nullifier: Poseidon(commitment, secret)
generate_nullifier(identity_commitment, secret) ==
    poseidon_hash(<<identity_commitment, secret>>)

MapErr(r, e) == IF r.ok THEN r ELSE Err(e)

poseidon_merkle_parent_Swapped(left, right) ==
    MapErr(poseidon_hash(<<right, left>>), "MerkleTreeError")

\* poseidon_merkle_parent: Poseidon(left, right), errors as MerkleTreeError
poseidon_merkle_parent(left, right) ==
    MapErr(poseidon_hash(<<left, right>>), "MerkleTreeError")

----------------------------------------------------------------------------
(* compression.rs: Merkle inclusion proofs *)

\* the state of the loop of verify_poseidon_merkle_proof: the running hash
\* (or the error that ended it) and the number of poseidon_hash calls made
LoopState(r, hashes) == [r |-> r, hashes |-> hashes]

MerkleStep_IgnoreSide(current_hash, sibling, is_right) ==
    MapErr(poseidon_hash(<<current_hash, sibling>>), "MerkleTreeError")

\* one iteration: is_right = true puts the current node on the left
MerkleStep(current_hash, sibling, is_right) ==
    IF is_right
    THEN MapErr(poseidon_hash(<<current_hash, sibling>>), "MerkleTreeError")
    ELSE MapErr(poseidon_hash(<<sibling, current_hash>>), "MerkleTreeError")

RECURSIVE MerkleLoop(_, _, _, _)
\* for (sibling, &is_right) in proof_siblings.iter().zip(proof_indices.iter())
MerkleLoop(st, proof_siblings, proof_indices, i) ==
    IF i > Min(Len(proof_siblings), Len(proof_indices)) \/ ~st.r.ok THEN st
    ELSE MerkleLoop(
            LoopState(MerkleStep(st.r.val, proof_siblings[i], proof_indices[i]), st.hashes + 1),
            proof_siblings, proof_indices, i + 1)

MerkleResult(r, hashes) == [ok |-> r.ok, val |-> r.val, err |-> r.err, hashes |-> hashes]

\* require!(proof_siblings.len() == proof_indices.len(), InvalidProof)
LengthGuard(proof_siblings, proof_indices) ==
    IF Len(proof_siblings) = Len(proof_indices) THEN "none" ELSE "InvalidProof"

verify_poseidon_merkle_proof(leaf, proof_siblings, proof_indices, root) ==
    LET guard == LengthGuard(proof_siblings, proof_indices)
        st == MerkleLoop(LoopState(Ok(leaf), 0), proof_siblings, proof_indices, 1)
    IN  IF guard # "none" THEN MerkleResult(Err(guard), 0)
        ELSE IF ~st.r.ok THEN MerkleResult(st.r, st.hashes)
        ELSE MerkleResult(Ok(st.r.val = root), st.hashes)

----------------------------------------------------------------------------
(* state.rs, instructions.rs, lib.rs: the accounts and the instructions *)

\* The Identity account modelled is the one at seeds ["identity", user];
\* "other" is any other signer passing that account.
Signers == {"user", "other"}

UserKey == Fill(7, FR_LEN)

OtherKey == Fill(9, FR_LEN)

\* user.key()
KeyOf(signer) == IF signer = "user" THEN UserKey ELSE OtherKey

\* 32-byte values callers pass as commitments and roots
Words32 == {Fill(1, FR_LEN), Fill(2, FR_LEN)}

\* the canonical bump of a program address is a function of its seeds
BumpOf(seedKey) == 255 - (seedKey[1] % 4)

NoRegistry == [exists |-> FALSE, authority |-> Zero32, total_identities |-> 0, bump |-> 0]

NoIdentity ==
    [exists |-> FALSE, owner |-> Zero32, identity_commitment |-> Zero32,
     merkle_root |-> Zero32, is_verified |-> FALSE, verification_timestamp |-> 0,
     attributes_verified |-> 0, bump |-> 0]

NoCompressed ==
    [owner |-> Zero32, state_hash |-> Zero32, merkle_root |-> Zero32,
     nullifier |-> Zero32, leaf_index |-> 0, attributes_verified |-> 0,
     last_updated |-> 0]

RECURSIVE BitOrFrom(_, _, _)
BitOrFrom(a, b, bit) ==
    IF bit > 128 THEN 0
    ELSE (IF (a \div bit) % 2 = 1 \/ (b \div bit) % 2 = 1 THEN bit ELSE 0)
         + BitOrFrom(a, b, 2 * bit)

BitOr_Overwrite(a, b) == b

\* a | b on u8
BitOr(a, b) == BitOrFrom(a, b, 1)

\* The account constraints Anchor checks before a handler runs on the
\* identity account: it is initialized and its seeds are the signer's.
IdentityAccountCheck(signer) ==
    IF ~identity.exists THEN "AccountNotInitialized"
    ELSE IF signer # "user" \/ identity.owner # KeyOf(signer) THEN "ConstraintSeeds"
    ELSE "none"

\* initialize
Initialize(signer) ==
    /\ lastOp' = "initialize"
    /\ args' = [signer |-> signer]
    /\ IF registry.exists
       THEN /\ result' = Err("AccountAlreadyInUse")
            /\ registry' = registry
       ELSE /\ result' = Ok(TRUE)
            /\ registry' = [exists |-> TRUE, authority |-> KeyOf(signer),
                            total_identities |-> 0, bump |-> BumpOf(Zero32)]
    /\ UNCHANGED <<identity, compressed>>

register_identity_result(signer, identity_commitment, merkle_root) ==
    LET compressed_state == compress_identity_data(KeyOf(signer), identity_commitment, merkle_root)
    IN  IF signer # "user" THEN Err("ConstraintSeeds")
        ELSE IF identity.exists THEN Err("AccountAlreadyInUse")
        ELSE IF ~registry.exists THEN Err("AccountNotInitialized")
        ELSE IF ~compressed_state.ok THEN Err(compressed_state.err)
        ELSE Ok(TRUE)

\* register_identity
RegisterIdentity(signer, identity_commitment, merkle_root) ==
    LET r == register_identity_result(signer, identity_commitment, merkle_root)
    IN  /\ lastOp' = "register_identity"
        /\ args' = [signer |-> signer, identity_commitment |-> identity_commitment,
                    merkle_root |-> merkle_root]
        /\ result' = r
        /\ IF r.ok
           THEN /\ identity' =
                      [exists |-> TRUE, owner |-> KeyOf(signer),
                       identity_commitment |-> identity_commitment,
                       merkle_root |-> merkle_root, is_verified |-> FALSE,
                       verification_timestamp |-> 0, attributes_verified |-> 0,
                       bump |-> BumpOf(KeyOf(signer))]
                /\ registry' = [registry EXCEPT !.total_identities = @ + 1]
           ELSE UNCHANGED <<identity, registry>>
        /\ UNCHANGED compressed

\* verify_identity, up to the writes: Clock::get()?, the two require! lines,
\* verify_groth16_proof(..)?, require!(is_valid)
verify_identity_result(signer, proofLen, pubLen, attribute_type, verdict, clock) ==
    LET check == IdentityAccountCheck(signer)
        r == verify_groth16_proof(proofLen, pubLen, attribute_type, verdict)
    IN  IF check # "none" THEN Trace(Err(check), "none", {})
        ELSE IF clock = 0 THEN Trace(Err("UnsupportedSysvar"), "none", {})
        ELSE IF proofLen # PROOF_LEN THEN Trace(Err("InvalidProof"), "none", {})
        ELSE IF ~(pubLen > 0) THEN Trace(Err("InvalidPublicInputs"), "none", {})
        ELSE IF ~r.ok THEN r
        ELSE IF ~r.val THEN Trace(Err("InvalidProof"), r.vk, r.calls)
        ELSE r

IdentityAfterVerify_Eager(id, r, attribute_type, now) ==
    IF r.ok \/ r.err = "ProofVerificationFailed"
    THEN [id EXCEPT !.attributes_verified = BitOr(@, attribute_type),
                    !.is_verified = TRUE,
                    !.verification_timestamp = now]
    ELSE id

\* the three writes of verify_identity, made only after every check passed
IdentityAfterVerify(id, r, attribute_type, now) ==
    IF r.ok
    THEN [id EXCEPT !.attributes_verified = BitOr(@, attribute_type),
                    !.is_verified = TRUE,
                    !.verification_timestamp = now]
    ELSE id

\* verify_identity; clock is the reading of Clock::get(), 0 when it fails
VerifyIdentity(signer, proofLen, pubLen, attribute_type, verdict, clock) ==
    LET r == verify_identity_result(signer, proofLen, pubLen, attribute_type, verdict, clock)
    IN  /\ lastOp' = "verify_identity"
        /\ result' = r
        /\ identity' = IdentityAfterVerify(identity, r, attribute_type, clock)
        /\ UNCHANGED <<registry, compressed>>

UpdateIdentity_KeepsBits(signer, new_commitment, new_merkle_root) ==
    LET check == IdentityAccountCheck(signer)
    IN  /\ lastOp' = "update_identity"
        /\ args' = [signer |-> signer, identity_commitment |-> new_commitment,
                    merkle_root |-> new_merkle_root]
        /\ IF check # "none"
           THEN /\ result' = Err(check)
                /\ identity' = identity
           ELSE /\ result' = Ok(TRUE)
                /\ identity' = [identity EXCEPT !.identity_commitment = new_commitment,
                                                !.merkle_root = new_merkle_root]
        /\ UNCHANGED <<registry, compressed>>

UpdateIdentity_KeepsFlag(signer, new_commitment, new_merkle_root) ==
    LET check == IdentityAccountCheck(signer)
    IN  /\ lastOp' = "update_identity"
        /\ args' = [signer |-> signer, identity_commitment |-> new_commitment,
                    merkle_root |-> new_merkle_root]
        /\ IF check # "none"
           THEN /\ result' = Err(check)
                /\ identity' = identity
           ELSE /\ result' = Ok(TRUE)
                /\ identity' = [identity EXCEPT !.identity_commitment = new_commitment,
                                                !.merkle_root = new_merkle_root,
                                                !.attributes_verified = 0]
        /\ UNCHANGED <<registry, compressed>>

\* update_identity
UpdateIdentity(signer, new_commitment, new_merkle_root) ==
    LET check == IdentityAccountCheck(signer)
    IN  /\ lastOp' = "update_identity"
        /\ args' = [signer |-> signer, identity_commitment |-> new_commitment,
                    merkle_root |-> new_merkle_root]
        /\ IF check # "none"
           THEN /\ result' = Err(check)
                /\ identity' = identity
           ELSE /\ result' = Ok(TRUE)
                /\ identity' = [identity EXCEPT !.identity_commitment = new_commitment,
                                                !.merkle_root = new_merkle_root,
                                                !.is_verified = FALSE,
                                                !.attributes_verified = 0]
        /\ UNCHANGED <<registry, compressed>>

RevokeIdentity_ClearsTimestamp(signer) ==
    LET check == IdentityAccountCheck(signer)
    IN  /\ lastOp' = "revoke_identity"
        /\ args' = [signer |-> signer]
        /\ IF check # "none"
           THEN /\ result' = Err(check)
                /\ identity' = identity
           ELSE /\ result' = Ok(TRUE)
                /\ identity' = [identity EXCEPT !.is_verified = FALSE,
                                                !.attributes_verified = 0,
                                                !.verification_timestamp = 0]
        /\ UNCHANGED <<registry, compressed>>

\* revoke_identity
RevokeIdentity(signer) ==
    LET check == IdentityAccountCheck(signer)
    IN  /\ lastOp' = "revoke_identity"
        /\ args' = [signer |-> signer]
        /\ IF check # "none"
           THEN /\ result' = Err(check)
                /\ identity' = identity
           ELSE /\ result' = Ok(TRUE)
                /\ identity' = [identity EXCEPT !.is_verified = FALSE,
                                                !.attributes_verified = 0]
        /\ UNCHANGED <<registry, compressed>>

----------------------------------------------------------------------------
(* compression.rs: the CompressedIdentity record *)

CompressedAfterUpdate_WriteFirst(record, new_state_hash, new_merkle_root, new_nullifier, clock) ==
    IF clock = 0
    THEN [record EXCEPT !.state_hash = new_state_hash]
    ELSE [record EXCEPT !.state_hash = new_state_hash,
                        !.merkle_root = new_merkle_root,
                        !.nullifier = new_nullifier,
                        !.last_updated = clock]

\* the record update_compressed_state leaves: Clock::get()? returns before any
\* write, else the four assignments
CompressedAfterUpdate(record, new_state_hash, new_merkle_root, new_nullifier, clock) ==
    IF clock = 0
    THEN record
    ELSE [record EXCEPT !.state_hash = new_state_hash,
                        !.merkle_root = new_merkle_root,
                        !.nullifier = new_nullifier,
                        !.last_updated = clock]

\* update_compressed_state: Clock::get()?, then the four writes
UpdateCompressedState(new_state_hash, new_merkle_root, new_nullifier, clock) ==
    /\ lastOp' = "update_compressed_state"
    /\ args' = [new_state_hash |-> new_state_hash, new_merkle_root |-> new_merkle_root,
                new_nullifier |-> new_nullifier, clock |-> clock]
    /\ result' = IF clock = 0 THEN Err("UnsupportedSysvar") ELSE Ok(TRUE)
    /\ compressed' = CompressedAfterUpdate(compressed, new_state_hash, new_merkle_root,
                                          new_nullifier, clock)
    /\ UNCHANGED <<registry, identity>>

\* verify_compressed_identity: require!(proof.len() > 0), then Ok(true)
verify_compressed_identity(record, proof) ==
    IF ~(Len(proof) > 0) THEN Err("InvalidProof") ELSE Ok(TRUE)

VerifyCompressedIdentity(proof) ==
    /\ lastOp' = "verify_compressed_identity"
    /\ args' = [proof |-> proof]
    /\ result' = verify_compressed_identity(compressed, proof)
    /\ UNCHANGED <<registry, identity, compressed>>

----------------------------------------------------------------------------
(* The instruction-level specification *)

\* Clock::get(): 0 stands for a failed read, else unix_timestamp
Clocks == 0..MaxTime

\* tags, proof and public-input lengths tried at the instruction level
IxTags == {0, AGE, NATIONALITY, UNIQUENESS, MaxTag}

IxProofLens == {PROOF_LEN - 1, PROOF_LEN}

IxPubLens == {INPUT_LEN}

Init ==
    /\ registry = NoRegistry
    /\ identity = NoIdentity
    /\ compressed = NoCompressed
    /\ lastOp = "none"
    /\ args = [signer |-> "user"]
    /\ result = NoResult

DoInitialize == \E signer \in Signers : Initialize(signer)

DoRegisterIdentity ==
    \E signer \in Signers, c \in Words32, m \in Words32 : RegisterIdentity(signer, c, m)

DoVerifyIdentity ==
    \E signer \in Signers, proofLen \in IxProofLens, pubLen \in IxPubLens,
       attribute_type \in IxTags, verdict \in LibVerdicts, clock \in Clocks :
        /\ VerifyIdentity(signer, proofLen, pubLen, attribute_type, verdict, clock)
        /\ args' = [proofLen |-> proofLen, pubLen |-> pubLen,
                    attribute_type |-> attribute_type]

DoUpdateIdentity ==
    \E signer \in Signers, c \in Words32, m \in Words32 : UpdateIdentity(signer, c, m)

DoRevokeIdentity == \E signer \in Signers : RevokeIdentity(signer)

Next ==
    \/ DoInitialize
    \/ DoRegisterIdentity
    \/ DoVerifyIdentity
    \/ DoUpdateIdentity
    \/ DoRevokeIdentity

Spec == Init /\ [][Next]_vars

----------------------------------------------------------------------------
(* The verifier specification: one call of verify_groth16_proof, or one     *)
(* verify_identity instruction, on inputs drawn by the initial state.       *)

Tags == 0..MaxTag

ProofLens == {PROOF_LEN - 1, PROOF_LEN, PROOF_LEN + 1}

\* aligned and misaligned public-input lengths, the empty buffer included
PubLens == {w * INPUT_LEN + d : w \in 0..MaxPubWords, d \in {0, 1}}

KnownTags == {AGE, NATIONALITY, UNIQUENESS}

\* an Identity account as register_identity and verify_identity leave it
Registered(c, m, bits, ts) ==
    [exists |-> TRUE, owner |-> UserKey, identity_commitment |-> c,
     merkle_root |-> m, is_verified |-> bits # 0, verification_timestamp |-> ts,
     attributes_verified |-> bits, bump |-> BumpOf(UserKey)]

PreIdentities ==
    {NoIdentity,
     Registered(Fill(1, FR_LEN), Fill(2, FR_LEN), 0, 0),
     Registered(Fill(1, FR_LEN), Fill(2, FR_LEN), AGE, 1),
     Registered(Fill(2, FR_LEN), Fill(1, FR_LEN), NATIONALITY + UNIQUENESS, MaxTime)}

InitVerifier ==
    /\ identity \in PreIdentities
    /\ registry = [exists |-> TRUE, authority |-> OtherKey,
                   total_identities |-> IF identity.exists THEN 1 ELSE 0,
                   bump |-> BumpOf(Zero32)]
    /\ compressed = NoCompressed
    /\ lastOp = "pending"
    /\ args \in [signer : Signers, proofLen : ProofLens, pubLen : PubLens,
                 attribute_type : Tags, verdict : LibVerdicts, clock : Clocks]
    /\ result = NoResult

CallVerifyGroth16Proof ==
    /\ lastOp = "pending"
    /\ lastOp' = "verify_groth16_proof"
    /\ result' = verify_groth16_proof(args.proofLen, args.pubLen, args.attribute_type,
                                      args.verdict)
    /\ UNCHANGED <<registry, identity, compressed, args>>

CallVerifyIdentity ==
    /\ lastOp = "pending"
    /\ VerifyIdentity(args.signer, args.proofLen, args.pubLen, args.attribute_type,
                      args.verdict, args.clock)
    /\ UNCHANGED args

NextVerifier == CallVerifyGroth16Proof \/ CallVerifyIdentity

SpecVerifier == InitVerifier /\ [][NextVerifier]_vars

VerifierCalled == lastOp = "verify_groth16_proof"

\* a public-input buffer of 1 to 5 elements of 32 bytes
WellShaped(pubLen) == pubLen \in {n * INPUT_LEN : n \in 1..MAX_ARITY}

\* verify_groth16_proof has returned on a known tag, a 256-byte proof and a
\* well-shaped public-input buffer
VerifierRan ==
    /\ lastOp = "verify_groth16_proof"
    /\ args.attribute_type \in KnownTags
    /\ args.proofLen = PROOF_LEN
    /\ WellShaped(args.pubLen)

\* the handler of verify_identity has run (the account constraints passed)
HandlerRan ==
    /\ lastOp = "verify_identity"
    /\ identity.exists
    /\ args.signer = "user"

\* C1, as claimed: on a known tag, a 256-byte proof and well-shaped public
\* inputs, a proof the pairing check rejects makes verify_groth16_proof return
\* the value false, not an error, and it returns true iff the check accepts.
C1_RejectedIsFalse ==
    VerifierRan =>
        /\ (args.verdict = "rejected" => (result.ok /\ result.val = FALSE))
        /\ ((result.ok /\ result.val = TRUE) <=> args.verdict = "accepted")

\* C1, amended: a rejected proof makes verify_groth16_proof fail with
\* ProofVerificationFailed and a malformed one with InvalidProof; it returns
\* true iff the pairing check accepts, and it never returns the value false.
C1_RejectedIsError ==
    VerifierRan =>
        /\ (args.verdict = "rejected" =>
                (~result.ok /\ result.err = "ProofVerificationFailed"))
        /\ (args.verdict = "malformed" => (~result.ok /\ result.err = "InvalidProof"))
        /\ ((result.ok /\ result.val = TRUE) <=> args.verdict = "accepted")
        /\ ~(result.ok /\ result.val = FALSE)

C1_Witness ==
    /\ VerifierRan
    /\ args.verdict = "rejected"
    /\ result.err = "ProofVerificationFailed"
    /\ "verify" \in result.calls

\* C2: whenever verify_identity ends in an error, every field of the Identity
\* record is as it was before the call.
C2_ErrorLeavesIdentity ==
    [][(lastOp' = "verify_identity" /\ ~result'.ok) => identity' = identity]_vars

C2_Witness ==
    /\ HandlerRan
    /\ result.err = "ProofVerificationFailed"
    /\ identity.attributes_verified = AGE
    /\ args.attribute_type = NATIONALITY

\* C3: with a tag outside {1,2,4} verify_groth16_proof fails with
\* InvalidPublicInputs whatever the proof and public-input lengths are; no key
\* is selected and the verifier is not called.
C3_UnknownTagRejected ==
    (lastOp = "verify_groth16_proof" /\ args.attribute_type \notin KnownTags) =>
        /\ ~result.ok
        /\ result.err = "InvalidPublicInputs"
        /\ result.vk = "none"
        /\ result.calls = {}

C3_Witness ==
    /\ lastOp = "verify_groth16_proof"
    /\ args.attribute_type \notin KnownTags
    /\ args.proofLen # PROOF_LEN
    /\ args.pubLen % INPUT_LEN # 0
    /\ result.err = "InvalidPublicInputs"

\* C4, as claimed: on a known tag, a proof whose length is not 256 makes both
\* verify_groth16_proof and the verify_identity instruction fail with
\* InvalidProof, without reaching the pairing evaluation.
C4_BadLengthIsInvalidProof ==
    ((VerifierCalled \/ HandlerRan)
        /\ args.attribute_type \in KnownTags /\ args.proofLen # PROOF_LEN) =>
        /\ ~result.ok
        /\ result.err = "InvalidProof"
        /\ "verify" \notin result.calls

\* C4, amended: verify_groth16_proof fails with InvalidProof; verify_identity
\* fails with InvalidProof when the clock could be read and with the clock's
\* error when it could not; neither reaches the pairing evaluation.
C4_BadLengthFails ==
    ((VerifierCalled \/ HandlerRan)
        /\ args.attribute_type \in KnownTags /\ args.proofLen # PROOF_LEN) =>
        /\ ~result.ok
        /\ "verify" \notin result.calls
        /\ result.err = (IF lastOp = "verify_identity" /\ args.clock = 0
                         THEN "UnsupportedSysvar" ELSE "InvalidProof")

C4_Witness ==
    /\ HandlerRan
    /\ args.attribute_type \in KnownTags
    /\ args.proofLen = PROOF_LEN + 1
    /\ args.clock # 0
    /\ result.err = "InvalidProof"

----------------------------------------------------------------------------
(* The hashing specification: one call of poseidon_hash on drawn buffers *)

\* up to MaxHashInputs buffers are hashed together
MaxHashInputs == 3

HashLens == {0, 1, CHUNK_LEN, FR_LEN, 2 * CHUNK_LEN + 1, 5 * CHUNK_LEN}

HashBuffers == {Ramp(base, n) : base \in {0, 100}, n \in HashLens}

HashInputs == UNION {[1..k -> HashBuffers] : k \in 0..MaxHashInputs}

InitHash ==
    /\ registry = NoRegistry
    /\ identity = NoIdentity
    /\ compressed = NoCompressed
    /\ lastOp = "pending"
    /\ args \in [inputs : HashInputs]
    /\ result = NoResult

CallPoseidonHash ==
    /\ lastOp = "pending"
    /\ lastOp' = "poseidon_hash"
    /\ result' = HashRun(args.inputs)
    /\ UNCHANGED <<registry, identity, compressed, args>>

NextHash == CallPoseidonHash

SpecHash == InitHash /\ [][NextHash]_vars

CeilDiv(a, b) == (a + b - 1) \div b

RECURSIVE SumCeil(_, _)
\* the sum over the first k buffers of ceil(length / 31)
SumCeil(inputs, k) ==
    IF k = 0 THEN 0 ELSE SumCeil(inputs, k - 1) + CeilDiv(Len(inputs[k]), CHUNK_LEN)

RECURSIVE SegmentLens(_)
\* the lengths of the segments of a buffer of n bytes: 31, ..., 31, rest
SegmentLens(n) ==
    IF n = 0 THEN <<>>
    ELSE IF n <= CHUNK_LEN THEN <<n>>
    ELSE <<CHUNK_LEN>> \o SegmentLens(n - CHUNK_LEN)

RECURSIVE SegmentLensOf(_, _)
SegmentLensOf(inputs, k) ==
    IF k = 0 THEN <<>> ELSE SegmentLensOf(inputs, k - 1) \o SegmentLens(Len(inputs[k]))

RECURSIVE Unpadded(_, _, _)
\* the first k elements, each cut back to the length of its segment, joined
Unpadded(elems, lens, k) ==
    IF k = 0 THEN <<>>
    ELSE Unpadded(elems, lens, k - 1) \o SubSeq(elems[k], 1, lens[k])

TwoWords(inputs) == Len(inputs) = 2 /\ \A k \in 1..2 : Len(inputs[k]) = FR_LEN

ThreeWords(inputs) == Len(inputs) = 3 /\ \A k \in 1..3 : Len(inputs[k]) = FR_LEN

----------------------------------------------------------------------------
(* The Merkle specification: one call of verify_poseidon_merkle_proof, on   *)
(* the proof of a leaf of a tree built with poseidon_merkle_parent (as is,  *)
(* or with one sibling replaced or one direction flipped), or on free       *)
(* siblings and directions of any two lengths.                              *)

\* trees of depth 1..MaxDepth, proofs of length 0..MaxDepth
MaxDepth == 2

MerkleLeaves == {Fill(1, FR_LEN), Fill(2, FR_LEN)}

RECURSIVE Pow2(_)
Pow2(d) == IF d = 0 THEN 1 ELSE 2 * Pow2(d - 1)

\* the parents of a level, left to right
RECURSIVE ParentLevel(_)
ParentLevel(nodes) ==
    IF Len(nodes) < 2 THEN <<>>
    ELSE <<poseidon_merkle_parent(nodes[1], nodes[2]).val>>
         \o ParentLevel(SubSeq(nodes, 3, Len(nodes)))

RECURSIVE TreeLevels(_)
\* the tree built bottom-up: the leaves, their parents, ..., the root
TreeLevels(nodes) ==
    IF Len(nodes) = 1 THEN <<nodes>>
    ELSE <<nodes>> \o TreeLevels(ParentLevel(nodes))

\* the node j (from 0) of a level (the leaves are level 0)
NodeAt(tree, level, j) == tree[level + 1][j + 1]

\* the position at a level of the ancestor of leaf idx
AncestorOf(idx, level) == idx \div Pow2(level)

\* the node the proof of leaf idx is combined with at step l (from 1)
SiblingOf(tree, idx, l) ==
    LET j == AncestorOf(idx, l - 1)
    IN  NodeAt(tree, l - 1, IF j % 2 = 0 THEN j + 1 ELSE j - 1)

RECURSIVE ProofSiblings(_, _, _)
\* the inclusion proof of leaf idx, up to step depth
ProofSiblings(tree, idx, depth) ==
    IF depth = 0 THEN <<>>
    ELSE Append(ProofSiblings(tree, idx, depth - 1), SiblingOf(tree, idx, depth))

RECURSIVE ProofIndices(_, _)
\* its directions: true where the running node is the left one
ProofIndices(idx, depth) ==
    IF depth = 0 THEN <<>>
    ELSE Append(ProofIndices(idx, depth - 1), AncestorOf(idx, depth - 1) % 2 = 0)

Mutations(depth) ==
    {[kind |-> "none", level |-> 0, with |-> Zero32]}
    \cup {[kind |-> "direction", level |-> l, with |-> Zero32] : l \in 1..depth}
    \cup {[kind |-> "sibling", level |-> l, with |-> w] :
            l \in 1..depth, w \in MerkleLeaves \cup {Zero32}}

TreeCall(tree, idx, depth, mutation) ==
    LET sibs == ProofSiblings(tree, idx, depth)
        dirs == ProofIndices(idx, depth)
        l == mutation.level
    IN  [leaf |-> NodeAt(tree, 0, idx),
         proof_siblings |-> IF mutation.kind = "sibling"
                            THEN [sibs EXCEPT ![l] = mutation.with] ELSE sibs,
         proof_indices |-> IF mutation.kind = "direction"
                           THEN [dirs EXCEPT ![l] = ~dirs[l]] ELSE dirs,
         root |-> NodeAt(tree, depth, 0),
         family |-> "tree",
         mutation |-> mutation.kind,
         \* no mutation, or one that changes the proof
         proper |-> mutation.kind # "sibling" \/ mutation.with # sibs[l],
         \* the sibling at the mutated level equals the node it is combined with
         twins |-> mutation.kind # "none"
                   /\ sibs[l] = NodeAt(tree, l - 1, AncestorOf(idx, l - 1))]

\* the calls on the tree over the given leaves
CallsOnTree(leaves, depth) ==
    LET tree == TreeLevels(leaves)
    IN  {TreeCall(tree, idx, depth, mutation) :
            idx \in 0..(Pow2(depth) - 1), mutation \in Mutations(depth)}

\* the leaf rows of the trees of depth d: every row of up to 4 leaves; a
\* longer row is any 4 leaves followed by one leaf repeated
LeafRows(d) ==
    IF Pow2(d) <= 4
    THEN {SubSeq(lv, 1, Pow2(d)) : lv \in [1..Pow2(d) -> MerkleLeaves]}
    ELSE {SubSeq(lv, 1, 4) \o Fill(x, Pow2(d) - 4) :
            lv \in [1..4 -> MerkleLeaves], x \in MerkleLeaves}

\* trees of depth 1..MaxDepth over MerkleLeaves
Trees == UNION {{<<d, row>> : row \in LeafRows(d)} : d \in 1..MaxDepth}

TreeCalls == UNION {CallsOnTree(t[2], t[1]) : t \in Trees}

SeqsUpTo(S, n) == UNION {[1..k -> S] : k \in 0..n}

FreeRoots ==
    MerkleLeaves \cup {poseidon_merkle_parent(a, b).val : a, b \in MerkleLeaves}

FreeCalls ==
    {[leaf |-> leaf, proof_siblings |-> sibs, proof_indices |-> dirs, root |-> root,
      family |-> "free", mutation |-> "none", proper |-> FALSE, twins |-> FALSE] :
        leaf \in MerkleLeaves, sibs \in SeqsUpTo(MerkleLeaves, MaxDepth),
        dirs \in SeqsUpTo(BOOLEAN, MaxDepth), root \in FreeRoots}

InitMerkle ==
    /\ registry = NoRegistry
    /\ identity = NoIdentity
    /\ compressed = NoCompressed
    /\ lastOp = "pending"
    /\ args \in TreeCalls \cup FreeCalls
    /\ result = NoResult

CallVerifyMerkleProof ==
    /\ lastOp = "pending"
    /\ lastOp' = "verify_poseidon_merkle_proof"
    /\ result' = verify_poseidon_merkle_proof(args.leaf, args.proof_siblings,
                                              args.proof_indices, args.root)
    /\ UNCHANGED <<registry, identity, compressed, args>>

NextMerkle == CallVerifyMerkleProof

SpecMerkle == InitMerkle /\ [][NextMerkle]_vars

MerkleRan == lastOp = "verify_poseidon_merkle_proof"

\* hash(a, b) of the claim
PairHash(a, b) == poseidon_hash(<<a, b>>).val

RECURSIVE FoldTo(_, _, _, _)
\* the fold of the claim after the first n pairs
FoldTo(leaf, sibs, dirs, n) ==
    IF n = 0 THEN leaf
    ELSE IF dirs[n] THEN PairHash(FoldTo(leaf, sibs, dirs, n - 1), sibs[n])
    ELSE PairHash(sibs[n], FoldTo(leaf, sibs, dirs, n - 1))

\* C6: for siblings and directions of equal length the call returns
\* (fold = root), the fold starting at the leaf and taking hash(current,
\* sibling) where the direction says the current node is the left operand and
\* hash(sibling, current) otherwise; an empty proof gives (leaf = root), and one
\* sibling with the current node on the left agrees with
\* poseidon_merkle_parent(leaf, sibling) = root.
C6_FoldEqualsRoot ==
    (MerkleRan /\ Len(args.proof_siblings) = Len(args.proof_indices)) =>
        LET n == Len(args.proof_siblings)
        IN  /\ result.ok
            /\ result.val = (FoldTo(args.leaf, args.proof_siblings, args.proof_indices, n)
                             = args.root)
            /\ result.hashes = n
            /\ (n = 0 => result.val = (args.leaf = args.root))
            /\ ((n = 1 /\ args.proof_indices[1]) =>
                    result.val = (poseidon_merkle_parent(args.leaf, args.proof_siblings[1]).val
                                  = args.root))

C6_Witness ==
    /\ MerkleRan
    /\ Len(args.proof_siblings) = 2
    /\ args.proof_indices = <<FALSE, TRUE>>
    /\ args.proof_siblings[1] # args.leaf
    /\ result.ok
    /\ result.val = TRUE

\* C7, as claimed: the proof of every leaf of a tree built with
\* poseidon_merkle_parent verifies, and with any single sibling replaced by a
\* different digest or any single direction flipped it returns false, also
\* when the sibling equals the node it is combined with.
C7_AnyMutationFails ==
    (MerkleRan /\ args.family = "tree" /\ args.proper) =>
        /\ result.ok
        /\ result.val = (args.mutation = "none")

\* C7, amended: the proof of every leaf verifies; with one sibling replaced by
\* a different digest it returns false; with one direction flipped it returns
\* false unless the sibling at that level equals the node it is combined with,
\* and then the flipped proof still verifies.
C7_RoundTrip ==
    (MerkleRan /\ args.family = "tree" /\ args.proper) =>
        /\ result.ok
        /\ result.val = (args.mutation = "none"
                         \/ (args.mutation = "direction" /\ args.twins))

C7_Witness ==
    /\ MerkleRan
    /\ args.family = "tree"
    /\ args.mutation = "direction"
    /\ ~args.twins
    /\ Len(args.proof_siblings) = 2
    /\ result.ok
    /\ result.val = FALSE

\* C8: with siblings and directions of different lengths the call fails with
\* MerkleTreeError, whatever the leaf and the root, without hashing.
C8_MismatchIsMerkleTreeError ==
    (MerkleRan /\ Len(args.proof_siblings) # Len(args.proof_indices)) =>
        /\ ~result.ok
        /\ result.err = "MerkleTreeError"
        /\ result.hashes = 0

----------------------------------------------------------------------------
(* The compression specification: a CompressedIdentity record holding the   *)
(* compression of a registration, then any sequence of                      *)
(* update_compressed_state and verify_compressed_identity.                  *)

\* payloads of 0..MaxPayload bytes are passed to verify_compressed_identity
MaxPayload == 2

Secrets == {Fill(3, FR_LEN)}

\* the state hashes compress_identity_data gives the user
StateHashes ==
    {compress_identity_data(UserKey, c, m).val : c \in Words32, m \in Words32}

Nullifiers == {generate_nullifier(c, x).val : c \in Words32, x \in Secrets}

\* what a caller may pass as new_state_hash: a compression, or anything else
PassedHashes == StateHashes \cup {Fill(9, FR_LEN)}

InitCompression ==
    /\ registry = NoRegistry
    /\ identity = NoIdentity
    /\ \E c \in Words32, m \in Words32, x \in Secrets :
          compressed = [owner |-> UserKey,
                        state_hash |-> compress_identity_data(UserKey, c, m).val,
                        merkle_root |-> m,
                        nullifier |-> generate_nullifier(c, x).val,
                        leaf_index |-> 0, attributes_verified |-> 0,
                        last_updated |-> 0]
    /\ lastOp = "none"
    /\ args = [clock |-> 0]
    /\ result = NoResult

\* what a caller may pass as new_merkle_root: any word, or the parent of a
\* state hash and a sibling
PassedRoots ==
    Words32 \cup {poseidon_merkle_parent(h, Fill(2, FR_LEN)).val : h \in StateHashes}

\* one sibling followed by one direction byte
ProofEntry(sibling, direction) == sibling \o <<direction>>

\* proof payloads: every byte string over {0, 1} of up to MaxPayload bytes, and
\* one-sibling inclusion proofs
Payloads ==
    UNION {[1..n -> {0, 1}] : n \in 0..MaxPayload}
        \cup {ProofEntry(Fill(2, FR_LEN), d) : d \in {0, 1}}

DoUpdateCompressedState ==
    \E h \in PassedHashes, m \in PassedRoots, n \in Nullifiers, clock \in Clocks :
        UpdateCompressedState(h, m, n, clock)

DoVerifyCompressedIdentity ==
    \E proof \in Payloads : VerifyCompressedIdentity(SubSeq(proof, 1, Len(proof)))

NextCompression == DoUpdateCompressedState \/ DoVerifyCompressedIdentity

SpecCompression == InitCompression /\ [][NextCompression]_vars

\* C10: in every state reached by the record-writing operations, state_hash
\* is the compression of the record's owner, a commitment and the record's
\* merkle_root.
C10_StateHashIsCompression ==
    \E c \in Words32 :
        compressed.state_hash
            = compress_identity_data(compressed.owner, c, compressed.merkle_root).val

\* C11: update_compressed_state is all-or-nothing: when it succeeds the record
\* holds the new state_hash, merkle_root, nullifier and the clock's time in
\* last_updated; when it fails none of the four has changed; in both cases
\* owner, leaf_index and attributes_verified are unchanged.
C11_AllOrNothing ==
    [][(lastOp' = "update_compressed_state") =>
          /\ compressed'.owner = compressed.owner
          /\ compressed'.leaf_index = compressed.leaf_index
          /\ compressed'.attributes_verified = compressed.attributes_verified
          /\ result'.ok =>
                /\ compressed'.state_hash = args'.new_state_hash
                /\ compressed'.merkle_root = args'.new_merkle_root
                /\ compressed'.nullifier = args'.new_nullifier
                /\ compressed'.last_updated = args'.clock
          /\ ~result'.ok =>
                /\ compressed'.state_hash = compressed.state_hash
                /\ compressed'.merkle_root = compressed.merkle_root
                /\ compressed'.nullifier = compressed.nullifier
                /\ compressed'.last_updated = compressed.last_updated]_vars

\* a failed update, with values that differ from the record's, on a record an
\* earlier update wrote
C11_Witness ==
    /\ lastOp = "update_compressed_state"
    /\ ~result.ok
    /\ compressed.last_updated > 0
    /\ args.new_state_hash # compressed.state_hash
    /\ args.new_merkle_root # compressed.merkle_root

\* bytes of one entry of a proof payload: a 32-byte sibling and a direction byte
ENTRY_LEN == FR_LEN + 1

RECURSIVE PayloadSiblings(_, _)
PayloadSiblings(proof, k) ==
    IF k = 0 THEN <<>>
    ELSE Append(PayloadSiblings(proof, k - 1),
                SubSeq(proof, (k - 1) * ENTRY_LEN + 1, (k - 1) * ENTRY_LEN + FR_LEN))

RECURSIVE PayloadIndices(_, _)
PayloadIndices(proof, k) ==
    IF k = 0 THEN <<>>
    ELSE Append(PayloadIndices(proof, k - 1), proof[k * ENTRY_LEN] # 0)

\* the payload is a list of (sibling, direction) entries that leads from the
\* record's state_hash to the record's merkle_root
EstablishesInclusion(record, proof) ==
    /\ Len(proof) > 0
    /\ Len(proof) % ENTRY_LEN = 0
    /\ LET k == Len(proof) \div ENTRY_LEN
           r == verify_poseidon_merkle_proof(record.state_hash,
                                             PayloadSiblings(proof, k),
                                             PayloadIndices(proof, k),
                                             record.merkle_root)
       IN  r.ok /\ r.val

\* C12: verify_compressed_identity with an empty payload fails with
\* InvalidProof, and with a non-empty payload returns true only when the
\* payload establishes inclusion of the record under its merkle_root.
C12_TrueOnlyOnInclusion ==
    (lastOp = "verify_compressed_identity") =>
        IF Len(args.proof) = 0
        THEN ~result.ok /\ result.err = "InvalidProof"
        ELSE (result.ok /\ result.val) => EstablishesInclusion(compressed, args.proof)

\* bit b (a power of two) of the u8 x
HasBit(x, b) == (x \div b) % 2 = 1

Bits8 == {1, 2, 4, 8, 16, 32, 64, 128}

\* C13: a successful verify_identity with tag t sets exactly the bit t:
\* afterwards each bit of attributes_verified is set iff it is the bit t or was
\* set before, is_verified is true, and owner, identity_commitment and
\* merkle_root are unchanged; when the bit t was already set the bitmap is as
\* it was.
C13_SetsExactlyTheBit ==
    [][(lastOp' = "verify_identity" /\ result'.ok) =>
          LET t == args'.attribute_type
          IN  /\ t \in KnownTags
              /\ \A b \in Bits8 :
                    HasBit(identity'.attributes_verified, b)
                        <=> (b = t \/ HasBit(identity.attributes_verified, b))
              /\ identity'.is_verified = TRUE
              /\ identity'.owner = identity.owner
              /\ identity'.identity_commitment = identity.identity_commitment
              /\ identity'.merkle_root = identity.merkle_root
              /\ HasBit(identity.attributes_verified, t) =>
                    identity'.attributes_verified = identity.attributes_verified]_vars

\* a successful verification of nationality on a record that already had age
C13_Witness ==
    /\ lastOp = "verify_identity"
    /\ result.ok
    /\ args.attribute_type = NATIONALITY
    /\ identity.attributes_verified = AGE + NATIONALITY
    /\ identity.is_verified

\* C14: revoke_identity resets attributes_verified to 0 and is_verified to
\* false and leaves owner, identity_commitment, merkle_root,
\* verification_timestamp and bump as they were, from every reachable state of
\* the record; on an already-revoked record it changes nothing.
C14_RevokeResets ==
    [][(lastOp' = "revoke_identity" /\ result'.ok) =>
          /\ identity'.attributes_verified = 0
          /\ identity'.is_verified = FALSE
          /\ identity'.exists = identity.exists
          /\ identity'.owner = identity.owner
          /\ identity'.identity_commitment = identity.identity_commitment
          /\ identity'.merkle_root = identity.merkle_root
          /\ identity'.verification_timestamp = identity.verification_timestamp
          /\ identity'.bump = identity.bump
          /\ (identity.attributes_verified = 0 /\ ~identity.is_verified) =>
                identity' = identity]_vars

\* a revoked record that still carries the time of an earlier verification
C14_Witness ==
    /\ lastOp = "revoke_identity"
    /\ result.ok
    /\ identity.attributes_verified = 0
    /\ ~identity.is_verified
    /\ identity.verification_timestamp > 0

\* C15: in every state reached by register_identity, verify_identity,
\* update_identity and revoke_identity, is_verified is true exactly when
\* attributes_verified is non-zero, and attributes_verified has only bits of
\* {1, 2, 4} set (it is at most 7).
C15_FlagMatchesBitmap ==
    /\ identity.is_verified <=> (identity.attributes_verified # 0)
    /\ \A b \in Bits8 : HasBit(identity.attributes_verified, b) => b \in KnownTags
    /\ identity.attributes_verified \in 0..(AGE + NATIONALITY + UNIQUENESS)

\* a record with all three attributes verified
C15_Witness ==
    /\ identity.exists
    /\ identity.is_verified
    /\ identity.attributes_verified = AGE + NATIONALITY + UNIQUENESS

\* the instructions that start a record's bitmap afresh
Resets == {"register_identity", "update_identity", "revoke_identity"}

\* C16: no verified attribute survives a change of commitment. A successful
\* update_identity stores the new commitment and merkle_root with is_verified
\* false and attributes_verified 0, as every successful register_identity and
\* revoke_identity leaves the bitmap 0; and a bit of attributes_verified goes
\* from clear to set only in a successful verify_identity of that tag. So each
\* bit that is set was set by a successful verify_identity after the last
\* register_identity, update_identity or revoke_identity.
C16_BitsSetSinceLastReset ==
    [][/\ (lastOp' = "update_identity" /\ result'.ok) =>
             /\ identity'.identity_commitment = args'.identity_commitment
             /\ identity'.merkle_root = args'.merkle_root
             /\ identity'.is_verified = FALSE
             /\ identity'.attributes_verified = 0
       /\ (lastOp' \in Resets /\ result'.ok) => identity'.attributes_verified = 0
       /\ \A b \in Bits8 :
             (HasBit(identity'.attributes_verified, b)
                 /\ ~HasBit(identity.attributes_verified, b)) =>
                   /\ lastOp' = "verify_identity"
                   /\ result'.ok
                   /\ args'.attribute_type = b]_vars

\* a record verified earlier whose commitment was then replaced: the bitmap is
\* empty under the new commitment
C16_Witness ==
    /\ lastOp = "update_identity"
    /\ result.ok
    /\ identity.verification_timestamp > 0
    /\ identity.identity_commitment = args.identity_commitment
    /\ identity.attributes_verified = 0
    /\ ~identity.is_verified

====
